---- MODULE Spec2Model ----
(***************************************************************************)
(* A model of COT's XML helper class (src/COT/xml_file.py): namespace      *)
(* extraction, child lookup, ordered child insertion, find-or-create       *)
(* update and the reindentation done by write_xml.                         *)
(*                                                                         *)
(* Strings are sequences of tokens: "{" and "}" are the only tokens the    *)
(* code looks inside a name for; "\n" and " " are the whitespace tokens.   *)
(* An optional value (Python's None or a value) is a sequence of length    *)
(* at most one.  An attribute dictionary is a set of <<key, value>> pairs  *)
(* with at most one pair per key.  List positions returned by the model    *)
(* are 0-based where the code's are.                                       *)
(***************************************************************************)
EXTENDS Integers, Sequences, FiniteSets, TLC

VARIABLES
    root,      \* self.root: the element the operations are applied to
    session,   \* the ordering an ordered editing session uses throughout
    call,      \* the last operation called, with its arguments
    before,    \* root as it was when the last operation was called
    ret,       \* what the last operation returned or raised
    log        \* the log records the last operation emitted

vars == <<root, session, call, before, ret, log>>

-----------------------------------------------------------------------------
(* Bounds of the model                                                     *)

MaxChildren == 3
MaxOrdering == 3
MaxFindNodes == 3
MaxFindDepth == 2
MaxSetChildren == 2
MaxWriteNodes == 3
MaxWriteDepth == 2
MaxCalls == 2

-----------------------------------------------------------------------------
(* Values                                                                  *)

None == <<>>
Some(x) == <<x>>

Range(s) == {s[i] : i \in 1..Len(s)}

SeqsUpTo(S, n) == UNION {[1..k -> S] : k \in 0..n}

NsOvf == <<"ovf">>
NsCustom == <<"urn:unknown">>

QName(ns, local) == <<"{">> \o ns \o <<"}">> \o <<local>>

Envelope == QName(NsOvf, "Envelope")
Info == QName(NsOvf, "Info")
References == QName(NsOvf, "References")
DiskSection == QName(NsOvf, "DiskSection")
Custom == QName(NsCustom, "Custom")
Item == QName(NsOvf, "Item")
Other == QName(NsOvf, "Other")
\* a name without a namespace prefix
Plain == <<"Plain">>

Newline == "\n"
Space == " "

\* ET.Element(tag): no attributes, no text, no tail, no children
Element(tag) == [tag |-> tag, attrib |-> {}, text |-> None, tail |-> None, kids |-> <<>>]

\* dict.get(key, None)
Get(attrib, key) ==
    IF \E p \in attrib : p[1] = key
    THEN Some((CHOOSE p \in attrib : p[1] = key)[2])
    ELSE None

\* the element at a path of 1-based child positions below parent
RECURSIVE ElemAt(_, _)
ElemAt(parent, path) ==
    IF path = <<>> THEN parent ELSE ElemAt(parent.kids[Head(path)], Tail(path))

-----------------------------------------------------------------------------
(* Namespace utilities                                                     *)

\* re.match(r"\{(.*)\}", text): an opening brace first, then the greedy group
\* up to the last closing brace
ns_match(text) ==
    /\ Len(text) >= 2
    /\ text[1] = "{"
    /\ \E j \in 2..Len(text) : text[j] = "}"

get_ns(text) ==
    IF ns_match(text)
    THEN LET last == CHOOSE j \in 2..Len(text) :
                         /\ text[j] = "}"
                         /\ \A k \in (j+1)..Len(text) : text[k] # "}"
         IN  SubSeq(text, 2, last - 1)
    ELSE <<>>

get_ns_log(text) ==
    IF ns_match(text)
    THEN <<>>
    ELSE <<[level |-> "error", about |-> "no namespace prefix", tag |-> text]>>

-----------------------------------------------------------------------------
(* Ordered insertion                                                       *)

\* Python truthiness of an optional list: neither None nor empty
truthy(opt) == opt # None /\ opt[1] # <<>>

contains(list, x) == \E i \in 1..Len(list) : list[i] = x

\* list.index(x), 0-based; the caller handles ValueError with contains
index(list, x) ==
    (CHOOSE i \in 1..Len(list) : list[i] = x /\ \A j \in 1..(i-1) : list[j] # x) - 1

\* `known_namespaces and (XML.get_ns(tag) in known_namespaces)`
in_known(tag, known_namespaces) ==
    /\ known_namespaces # None
    /\ known_namespaces[1] # {}
    /\ get_ns(tag) \in known_namespaces[1]

in_known_log(tag, known_namespaces) ==
    IF known_namespaces # None /\ known_namespaces[1] # {}
    THEN get_ns_log(tag)
    ELSE <<>>

warn(what, tag) == <<[level |-> "warning", about |-> what, tag |-> tag]>>

\* the comparison that ends the scan
past_new_ge(ordering, child_tag, new_index) == index(ordering, child_tag) >= new_index

past_new(ordering, child_tag, new_index) == index(ordering, child_tag) > new_index

\* an existing child whose tag is not in the ordering: skipped instead of
\* taken as the insertion boundary
is_boundary_never(ordering, child_tag) == FALSE

is_boundary(ordering, child_tag) == ~contains(ordering, child_tag)

\* the for loop over list(parent), from position i (0-based) on
RECURSIVE scan(_, _, _, _, _)
scan(children, ordering, new_index, known_namespaces, i) ==
    IF i >= Len(children)
    THEN [i |-> i, found_position |-> FALSE, log |-> <<>>]
    ELSE LET child == children[i + 1]
         IN  IF contains(ordering, child.tag)
             THEN IF past_new(ordering, child.tag, new_index)
                  THEN [i |-> i, found_position |-> TRUE, log |-> <<>>]
                  ELSE scan(children, ordering, new_index, known_namespaces, i + 1)
             ELSE IF is_boundary(ordering, child.tag)
                  THEN [i |-> i, found_position |-> TRUE,
                        log |-> in_known_log(child.tag, known_namespaces) \o
                                (IF in_known(child.tag, known_namespaces)
                                 THEN warn("existing", child.tag) ELSE <<>>)]
                  ELSE scan(children, ordering, new_index, known_namespaces, i + 1)

\* list.insert(i, x) with 0 <= i <= len
insert(list, i, x) == SubSeq(list, 1, i) \o <<x>> \o SubSeq(list, i + 1, Len(list))

add_child_append(parent, new_child, ordering, known_namespaces) ==
    [parent |-> [parent EXCEPT !.kids = Append(@, new_child)],
     at |-> Len(parent.kids), log |-> <<>>]

\* the result: the parent, the list position the new child was put at, the log
add_child(parent, new_child, ordering, known_namespaces) ==
    LET unlisted == truthy(ordering) /\ ~contains(ordering[1], new_child.tag)
        log1 == IF unlisted
                THEN in_known_log(new_child.tag, known_namespaces) \o
                     (IF in_known(new_child.tag, known_namespaces)
                      THEN warn("new", new_child.tag) ELSE <<>>)
                ELSE <<>>
        ordering2 == IF unlisted THEN None ELSE ordering
    IN  IF ~truthy(ordering2)
        THEN [parent |-> [parent EXCEPT !.kids = Append(@, new_child)],
              at |-> Len(parent.kids), log |-> log1]
        ELSE LET new_index == index(ordering2[1], new_child.tag)
                 s == scan(parent.kids, ordering2[1], new_index, known_namespaces, 0)
             IN  IF s.found_position
                 THEN [parent |-> [parent EXCEPT !.kids = insert(@, s.i, new_child)],
                       at |-> s.i, log |-> log1 \o s.log]
                 ELSE [parent |-> [parent EXCEPT !.kids = Append(@, new_child)],
                       at |-> Len(parent.kids), log |-> log1 \o s.log]

-----------------------------------------------------------------------------
(* Lookup                                                                  *)

\* what an operation returned or raised; Pending before it has run
Pending == [state |-> "pending", exc |-> "", val |-> None]
Return(v) == [state |-> "returned", exc |-> "", val |-> v]
Raise(e) == [state |-> "raised", exc |-> e, val |-> None]

\* the tag argument of find_all_children: one string, or an iterable of strings
Str(t) == [kind |-> "str", val |-> t]
List(ts) == [kind |-> "list", val |-> ts]

\* parent.findall(tag) for a plain tag: the direct children with that tag, in
\* document order; an element is named by its path below the parent
RECURSIVE findall_from(_, _, _)
findall_from(parent, tag, i) ==
    IF i > Len(parent.kids) THEN <<>>
    ELSE (IF parent.kids[i].tag = tag THEN <<(<<i>>)>> ELSE <<>>)
         \o findall_from(parent, tag, i + 1)

findall(parent, tag) == findall_from(parent, tag, 1)

\* `for t in tag: elements.extend(parent.findall(t))`
RECURSIVE findall_each(_, _)
findall_each(parent, tags) ==
    IF tags = <<>> THEN <<>>
    ELSE findall(parent, Head(tags)) \o findall_each(parent, Tail(tags))

\* the loop over attrib.keys() deciding `found`
attrib_matches_present(e, attrib) ==
    IF attrib = None \/ attrib[1] = {} THEN TRUE
    ELSE \A p \in attrib[1] : Get(e.attrib, p[1]) # None

attrib_matches(e, attrib) ==
    IF attrib = None \/ attrib[1] = {} THEN TRUE
    ELSE \A p \in attrib[1] : Get(e.attrib, p[1]) = Some(p[2])

RECURSIVE filter_matches(_, _, _)
filter_matches(parent, elements, attrib) ==
    IF elements = <<>> THEN <<>>
    ELSE (IF attrib_matches(ElemAt(parent, Head(elements)), attrib)
          THEN <<Head(elements)>> ELSE <<>>)
         \o filter_matches(parent, Tail(elements), attrib)

find_all_children(parent, tag, attrib) ==
    LET elements == IF tag.kind = "str"
                    THEN findall(parent, tag.val)
                    ELSE findall_each(parent, tag.val)
    IN  filter_matches(parent, elements, attrib)

find_child_first(parent, tag, attrib, required) ==
    LET matches == find_all_children(parent, Str(tag), attrib)
    IN  IF Len(matches) = 0
        THEN IF required THEN Raise("KeyError") ELSE Return(None)
        ELSE Return(Some(matches[1]))

find_child(parent, tag, attrib, required) ==
    LET matches == find_all_children(parent, Str(tag), attrib)
    IN  IF Len(matches) > 1
        THEN Raise("LookupError")
        ELSE IF Len(matches) = 0
             THEN IF required THEN Raise("KeyError") ELSE Return(None)
             ELSE Return(Some(matches[1]))

-----------------------------------------------------------------------------
(* Find-or-create update                                                   *)

\* the text argument: a string, or a number that str() renders in decimal
StrVal(s) == [kind |-> "str", str |-> s, num |-> 0]
IntVal(n) == [kind |-> "int", str |-> <<>>, num |-> n]

Digit(d) == <<"0", "1", "2", "3", "4", "5", "6", "7", "8", "9">>[d + 1]

RECURSIVE decimal(_)
decimal(n) == IF n < 10 THEN <<Digit(n)>> ELSE decimal(n \div 10) \o <<Digit(n % 10)>>

\* str(text)
py_str(v) == IF v.kind = "str" THEN v.str ELSE decimal(v.num)

\* `for a in attrib: element.set(a, attrib[a])`
set_all_nothing(element_attrib, attrib) == element_attrib

set_all(element_attrib, attrib) ==
    {p \in element_attrib : ~\E q \in attrib : q[1] = p[1]} \cup attrib

\* the result: the parent, what was returned or raised, the log
set_or_make_child(parent, tag, text, attrib, ordering, known_namespaces) ==
    LET attrib1 == IF attrib = None THEN {} ELSE attrib[1]
        found == find_child(parent, tag, Some(attrib1), FALSE)
    IN  IF found.state = "raised"
        THEN [parent |-> parent, ret |-> found, log |-> <<>>]
        ELSE LET created == found.val = None
                 added == add_child(parent, Element(tag), ordering, known_namespaces)
                 parent1 == IF created THEN added.parent ELSE parent
                 pos == IF created THEN added.at + 1 ELSE found.val[1][1]
                 element == parent1.kids[pos]
                 element1 == IF text # None
                             THEN [element EXCEPT !.text = Some(py_str(text[1]))]
                             ELSE element
                 element2 == [element1 EXCEPT !.attrib = set_all(@, attrib1)]
             IN  [parent |-> [parent1 EXCEPT !.kids[pos] = element2],
                  ret |-> Return(Some(<<pos>>)),
                  log |-> IF created THEN added.log ELSE <<>>]

-----------------------------------------------------------------------------
(* Reindentation                                                           *)

\* "\n" + (" " * depth)
indent(depth) == <<Newline>> \o [i \in 1..depth |-> Space]

\* the element after xml_reindent(parent, depth0) has run on it
RECURSIVE xml_reindent(_, _)

\* the parent's text set whether or not it has children
xml_reindent_any_text(parent, depth0) ==
    LET depth == depth0 + 2
        n == Len(parent.kids)
        kids1 == [i \in 1..n |->
                     xml_reindent([parent.kids[i] EXCEPT !.tail = Some(indent(depth))],
                                  depth)]
        depth2 == IF n > 0 THEN depth - 2 ELSE depth
        kids2 == IF n > 0
                 THEN [kids1 EXCEPT ![n].tail = Some(indent(depth2))]
                 ELSE kids1
        parent1 == [parent EXCEPT !.kids = kids2, !.text = Some(indent(depth))]
    IN  IF depth2 = 0
        THEN [parent1 EXCEPT !.tail = Some(<<Newline>>)]
        ELSE parent1

xml_reindent(parent, depth0) ==
    LET depth == depth0 + 2
        n == Len(parent.kids)
        kids1 == [i \in 1..n |->
                     xml_reindent([parent.kids[i] EXCEPT !.tail = Some(indent(depth))],
                                  depth)]
        depth2 == IF n > 0 THEN depth - 2 ELSE depth
        kids2 == IF n > 0
                 THEN [kids1 EXCEPT ![n].tail = Some(indent(depth2))]
                 ELSE kids1
        parent1 == [parent EXCEPT !.kids = kids2,
                                  !.text = IF n > 0 THEN Some(indent(depth)) ELSE @]
    IN  IF depth2 = 0
        THEN [parent1 EXCEPT !.tail = Some(<<Newline>>)]
        ELSE parent1

-----------------------------------------------------------------------------
(* Parsed documents                                                        *)

\* the forests of exactly k elements nested at most d deep, every element's
\* tag, attributes, text and tail taken from one of Shells
RECURSIVE ForestsOf(_, _, _)
ForestsOf(k, d, Shells) ==
    IF k = 0 THEN {<<>>}
    ELSE IF d = 0 THEN {}
    ELSE UNION {
            {<<[s EXCEPT !.kids = sub]>> \o rest :
                s \in Shells,
                sub \in ForestsOf(j, d - 1, Shells),
                rest \in ForestsOf(k - 1 - j, d, Shells)} : j \in 0..(k - 1)}

Forests(n, d, Shells) == UNION {ForestsOf(k, d, Shells) : k \in 0..n}

-----------------------------------------------------------------------------
(* Inputs of the insertion sessions                                        *)

Tags == {Info, References, DiskSection, Custom, Plain}
OrderedTags == {Info, References, DiskSection}
\* list.index and `in` see only the first occurrence of a tag, so an ordering
\* with repeated tags behaves as the ordering without the repetitions
Orderings ==
    {o \in SeqsUpTo(OrderedTags, MaxOrdering) :
        \A i, j \in 1..Len(o) : o[i] = o[j] => i = j}
KnownChoices == {None, Some({}), Some({NsOvf})}

NoCall == [op |-> "none"]

AddChild(tag, ordering, known_namespaces) ==
    /\ Len(root.kids) < MaxChildren
    /\ LET r == add_child(root, Element(tag), ordering, known_namespaces)
       IN  /\ root' = r.parent
           /\ ret' = Return(Some(r.at))
           /\ log' = r.log
    /\ call' = [op |-> "add_child", tag |-> tag, ordering |-> ordering,
                known_namespaces |-> known_namespaces]
    /\ before' = root
    /\ UNCHANGED session

\* an editing session on an empty parent, any ordering or none on each call
InitAdd ==
    /\ root = Element(Envelope)
    /\ session = None
    /\ call = NoCall
    /\ before = root
    /\ ret = Pending
    /\ log = <<>>

NextAdd ==
    \E tag \in Tags, ordering \in {None} \cup {Some(o) : o \in Orderings},
       known_namespaces \in KnownChoices :
        AddChild(tag, ordering, known_namespaces)

SpecAdd == InitAdd /\ [][NextAdd]_vars

\* an editing session on an empty parent that passes one ordering on every call
InitOrdered ==
    /\ root = Element(Envelope)
    /\ session \in {Some(o) : o \in Orderings}
    /\ call = NoCall
    /\ before = root
    /\ ret = Pending
    /\ log = <<>>

NextOrdered ==
    \E tag \in Tags, known_namespaces \in KnownChoices :
        AddChild(tag, session, known_namespaces)

SpecOrdered == InitOrdered /\ [][NextOrdered]_vars

-----------------------------------------------------------------------------
(* Lookups on a parsed document                                            *)

Id1 == {<<"id", "1">>}
Id2 == {<<"id", "2">>}
Id1Name == {<<"id", "1">>, <<"name", "x">>}

FindTags == {Item, Other}
FindShells == {[Element(t) EXCEPT !.attrib = a] : t \in FindTags, a \in {{}, Id1, Id1Name}}
FindDocs(n, d) == {[Element(Envelope) EXCEPT !.kids = f] : f \in Forests(n, d, FindShells)}
FindAttribs == {None, Some({}), Some(Id1), Some(Id2), Some(Id1Name)}
FindTagArgs == {Str(t) : t \in FindTags} \cup {List(ts) : ts \in SeqsUpTo(FindTags, 2)}

FindCalls ==
    {[op |-> "find_all_children", tag |-> t, attrib |-> a] :
        t \in FindTagArgs, a \in FindAttribs}
    \cup
    {[op |-> "find_child", tag |-> t, attrib |-> a, required |-> r] :
        t \in FindTags, a \in FindAttribs, r \in BOOLEAN}

FindAllChildren ==
    /\ call.op = "find_all_children"
    /\ ret.state = "pending"
    /\ ret' = Return(find_all_children(root, call.tag, call.attrib))
    /\ before' = root
    /\ UNCHANGED <<root, session, call, log>>

FindChild ==
    /\ call.op = "find_child"
    /\ ret.state = "pending"
    /\ ret' = find_child(root, call.tag, call.attrib, call.required)
    /\ before' = root
    /\ UNCHANGED <<root, session, call, log>>

\* a parsed document and the arguments of a lookup about to be made on it
InitFind ==
    /\ root \in FindDocs(MaxFindNodes, MaxFindDepth)
    /\ session = None
    /\ call \in FindCalls
    /\ before = root
    /\ ret = Pending
    /\ log = <<>>

NextFind == FindAllChildren \/ FindChild

SpecFind == InitFind /\ [][NextFind]_vars

-----------------------------------------------------------------------------
(* Find-or-create on a parsed document, called again with the same arguments *)

Old == <<"o", "l", "d">>

SetShells == {[Element(t) EXCEPT !.attrib = a, !.text = x] :
                 t \in FindTags, a \in {{}, Id1, Id2}, x \in {None, Some(Old)}}
SetDocs(n) == {[Element(Envelope) EXCEPT !.kids = f] : f \in Forests(n, 1, SetShells)}
SetTexts == {None, Some(StrVal(<<"5">>)), Some(IntVal(12))}
SetAttribs == {None, Some({}), Some(Id1), Some(Id1Name)}
SetOrderings == {None, Some(<<Item, Other>>), Some(<<Other>>)}
SetKnown == {None, Some({NsOvf})}

SetCalls ==
    {[op |-> "set_or_make_child", tag |-> t, text |-> x, attrib |-> a,
      ordering |-> o, known_namespaces |-> k, times |-> 0] :
        t \in FindTags, x \in SetTexts, a \in SetAttribs, o \in SetOrderings,
        k \in SetKnown}

SetOrMakeChild ==
    /\ call.op = "set_or_make_child"
    /\ call.times < MaxCalls
    /\ LET r == set_or_make_child(root, call.tag, call.text, call.attrib,
                                  call.ordering, call.known_namespaces)
       IN  /\ root' = r.parent
           /\ ret' = r.ret
           /\ log' = r.log
    /\ call' = [call EXCEPT !.times = @ + 1]
    /\ before' = root
    /\ UNCHANGED session

InitSet ==
    /\ root \in SetDocs(MaxSetChildren)
    /\ session = None
    /\ call \in SetCalls
    /\ before = root
    /\ ret = Pending
    /\ log = <<>>

NextSet == SetOrMakeChild

SpecSet == InitSet /\ [][NextSet]_vars

-----------------------------------------------------------------------------
(* Writing a parsed document                                               *)

Blank == <<Space>>
Word == <<"a">>
WriteTexts == {None, Some(Blank), Some(Word)}
WriteShells == {[Element(Item) EXCEPT !.text = x, !.tail = y] :
                   x \in WriteTexts, y \in {None, Some(Word)}}
\* the parser leaves the root's tail unset
WriteDocs(n, d) ==
    {[Element(Envelope) EXCEPT !.kids = f, !.text = x] :
        f \in Forests(n, d, WriteShells), x \in WriteTexts}

\* write_xml up to the serialisation of the reindented tree
WriteXml ==
    /\ root' = xml_reindent(root, 0)
    /\ call' = [op |-> "write_xml"]
    /\ before' = root
    /\ ret' = Return(None)
    /\ UNCHANGED <<session, log>>

InitWrite ==
    /\ root \in WriteDocs(MaxWriteNodes, MaxWriteDepth)
    /\ session = None
    /\ call = NoCall
    /\ before = root
    /\ ret = Pending
    /\ log = <<>>

NextWrite == WriteXml

SpecWrite == InitWrite /\ [][NextWrite]_vars

-----------------------------------------------------------------------------
(* Properties                                                              *)

KidTags(e) == [i \in 1..Len(e.kids) |-> e.kids[i].tag]

Listed(O, tag) == tag \in Range(O)

\* the 1-based place of a listed tag in an ordering
Rank(O, tag) == CHOOSE i \in 1..Len(O) : O[i] = tag /\ \A j \in 1..(i - 1) : O[j] # tag

\* listed children in non-decreasing rank
ListedSorted(kids, O) ==
    \A i, j \in 1..Len(kids) :
        (i < j /\ Listed(O, kids[i].tag) /\ Listed(O, kids[j].tag))
            => Rank(O, kids[i].tag) <= Rank(O, kids[j].tag)

\* no unlisted child before a listed one
UnlistedTrailing(kids, O) ==
    \A i, j \in 1..Len(kids) :
        i < j => ~(~Listed(O, kids[i].tag) /\ Listed(O, kids[j].tag))

\* C1: in a session that passes one ordering O to every add_child call on an
\* initially empty parent, after every call the children whose tags are in O
\* are in non-decreasing order of their index in O.
C1_ListedChildrenSorted == ListedSorted(root.kids, session[1])

\* a listed child was put in front of a listed child inserted earlier, with
\* an unlisted child present as well
C1_Witness ==
    /\ call.op = "add_child"
    /\ Len(root.kids) = 3
    /\ Listed(session[1], call.tag)
    /\ ret.val[1] < Len(before.kids)
    /\ Listed(session[1], before.kids[ret.val[1] + 1].tag)
    /\ \E i \in 1..Len(root.kids) : ~Listed(session[1], root.kids[i].tag)

\* C5: in a session that passes one ordering O to every add_child call on an
\* initially empty parent, every child whose tag is in O precedes every child
\* whose tag is not in O.
C5_CustomTrailing == UnlistedTrailing(root.kids, session[1])

\* a listed child was inserted when an unlisted child was there, in front of it
C5_Witness ==
    /\ call.op = "add_child"
    /\ Listed(session[1], call.tag)
    /\ ret.val[1] < Len(before.kids)
    /\ ~Listed(session[1], before.kids[ret.val[1] + 1].tag)

AddListed ==
    /\ call.op = "add_child"
    /\ call.ordering # None
    /\ Listed(call.ordering[1], call.tag)

AddUnlisted ==
    /\ call.op = "add_child"
    /\ call.ordering # None
    /\ ~Listed(call.ordering[1], call.tag)

\* the 1-based position the last add_child put the new child at
NewAt == ret.val[1] + 1

\* an existing child the new child must go in front of
Boundary(O, new_tag, e) ==
    ~Listed(O, e.tag) \/ Rank(O, e.tag) > Rank(O, new_tag)

ExpectedAt(kids, O, new_tag) ==
    IF \E i \in 1..Len(kids) : Boundary(O, new_tag, kids[i])
    THEN CHOOSE i \in 1..Len(kids) :
             /\ Boundary(O, new_tag, kids[i])
             /\ \A j \in 1..(i - 1) : ~Boundary(O, new_tag, kids[j])
    ELSE Len(kids) + 1

\* kids with x put at 1-based position p
PutAt(kids, p, x) ==
    [i \in 1..(Len(kids) + 1) |->
        IF i < p THEN kids[i] ELSE IF i = p THEN x ELSE kids[i - 1]]

\* C2: add_child with an ordering that lists the new child's tag puts the new
\* child immediately before the first existing child whose tag has a greater
\* index in the ordering or is not in the ordering, and last if there is none.
C2_InsertedBeforeFirstBoundary ==
    AddListed =>
        LET p == ExpectedAt(before.kids, call.ordering[1], call.tag)
        IN  /\ NewAt = p
            /\ root.kids = PutAt(before.kids, p, Element(call.tag))
            /\ [root EXCEPT !.kids = before.kids] = before

\* [Info, DiskSection] plus References under [Info, References, DiskSection]
C2_Witness ==
    /\ AddListed
    /\ call.ordering = Some(<<Info, References, DiskSection>>)
    /\ call.tag = References
    /\ KidTags(before) = <<Info, DiskSection>>
    /\ KidTags(root) = <<Info, References, DiskSection>>
    /\ NewAt = 2

\* the new child is after every existing sibling of equal or smaller index,
\* and the existing siblings are in the order they were in
AfterNotGreaterSiblings ==
    LET O == call.ordering[1]
    IN  /\ \A i \in 1..Len(before.kids) :
               (Listed(O, before.kids[i].tag)
                /\ Rank(O, before.kids[i].tag) <= Rank(O, call.tag)) => i < NewAt
        /\ Len(root.kids) = Len(before.kids) + 1
        /\ \A i \in 1..Len(before.kids) :
               root.kids[IF i < NewAt THEN i ELSE i + 1] = before.kids[i]

\* C3 as stated: whenever add_child inserts a child whose tag is in the
\* ordering, the new child is after every existing sibling whose index is
\* equal to or smaller than its own, the siblings keeping their order.
C3_AfterNotGreaterSiblingsAlways == AddListed => AfterNotGreaterSiblings

\* C3 amended: the same, for existing children that are already consistent
\* with the ordering (listed children sorted, unlisted children trailing).
C3_AfterNotGreaterSiblingsWhenConsistent ==
    (/\ AddListed
     /\ ListedSorted(before.kids, call.ordering[1])
     /\ UnlistedTrailing(before.kids, call.ordering[1]))
        => AfterNotGreaterSiblings

\* a tie: the new child went after a sibling with its own tag and in front of
\* a sibling of greater index
C3_Witness ==
    /\ AddListed
    /\ ListedSorted(before.kids, call.ordering[1])
    /\ UnlistedTrailing(before.kids, call.ordering[1])
    /\ NewAt <= Len(before.kids)
    /\ \E i \in 1..(NewAt - 1) : before.kids[i].tag = call.tag
    /\ Listed(call.ordering[1], before.kids[NewAt].tag)

Warned == \E i \in 1..Len(log) : log[i].level = "warning"

AppendedWarnIffKnown ==
    /\ root.kids = Append(before.kids, Element(call.tag))
    /\ NewAt = Len(root.kids)
    /\ Warned <=> (/\ call.known_namespaces # None
                   /\ get_ns(call.tag) \in call.known_namespaces[1])

\* C4: add_child with an ordering that does not list the new child's tag
\* appends the new child, and logs a warning if and only if known_namespaces
\* is given and contains the new child's namespace.
C4_UnlistedAppendedWarnIffKnown == AddUnlisted => AppendedWarnIffKnown

\* C4 for the orderings that list at least one tag
C4_NonEmptyOrdering == (AddUnlisted /\ call.ordering[1] # <<>>) => AppendedWarnIffKnown

\* C6: set_or_make_child called again with the same arguments leaves the
\* parent as the first call left it.
C6_SecondCallChangesNothing ==
    (call.op = "set_or_make_child" /\ call.times >= 2) => root = before

\* two calls with tag Item, text "5", attrib {id: "1"} on a parent without
\* children: one Item child with that attribute and text
C6_Witness ==
    /\ call.op = "set_or_make_child"
    /\ call.times = 2
    /\ call.tag = Item
    /\ call.text = Some(StrVal(<<"5">>))
    /\ call.attrib = Some(Id1)
    /\ ret.state = "returned"
    /\ root.kids = <<[Element(Item) EXCEPT !.attrib = Id1, !.text = Some(<<"5">>)]>>

\* the positions of the direct children with the tag and every attribute asked
Matching(parent, tag, attrib) ==
    {i \in 1..Len(parent.kids) :
        /\ parent.kids[i].tag = tag
        /\ attrib # None => attrib[1] \subseteq parent.kids[i].attrib}

\* C7: find_child raises LookupError on two or more matches whatever required
\* is, raises KeyError on none when required, returns None on none when not
\* required, returns the match when there is one, and leaves the tree alone.
C7_FindChildOutcome ==
    (call.op = "find_child" /\ ret.state # "pending") =>
        LET m == Matching(before, call.tag, call.attrib)
            n == Cardinality(m)
        IN  /\ root = before
            /\ n >= 2 => ret = Raise("LookupError")
            /\ (n = 0 /\ call.required) => ret = Raise("KeyError")
            /\ (n = 0 /\ ~call.required) => ret = Return(None)
            /\ n = 1 => ret = Return(Some(<<CHOOSE i \in m : TRUE>>))

\* two matches and required false: LookupError all the same
C7_Witness ==
    /\ call.op = "find_child"
    /\ ~call.required
    /\ Cardinality(Matching(before, call.tag, call.attrib)) >= 2
    /\ ret.state = "raised"

RECURSIVE Ascending(_)
Ascending(S) ==
    IF S = {} THEN <<>>
    ELSE LET m == CHOOSE x \in S : \A y \in S : x <= y
         IN  <<(<<m>>)>> \o Ascending(S \ {m})

RECURSIVE PerTag(_, _, _)
PerTag(parent, tags, attrib) ==
    IF tags = <<>> THEN <<>>
    ELSE Ascending(Matching(parent, Head(tags), attrib))
         \o PerTag(parent, Tail(tags), attrib)

\* C8: find_all_children returns exactly the direct children with one of the
\* tags and every attribute asked, in document order per tag, the tags in
\* the order given; nothing when nothing matches.
C8_FindAllChildrenResult ==
    (call.op = "find_all_children" /\ ret.state = "returned") =>
        LET tags == IF call.tag.kind = "str" THEN <<call.tag.val>> ELSE call.tag.val
            res == ret.val
        IN  /\ root = before
            /\ \A k \in 1..Len(res) : Len(res[k]) = 1
            /\ {res[k][1] : k \in 1..Len(res)}
                   = UNION {Matching(root, t, call.attrib) : t \in Range(tags)}
            /\ res = PerTag(root, tags, call.attrib)

\* [Item, Other, x] asked for [Other, Item] with id 1: Other first, x left out
C8_Witness ==
    /\ call.op = "find_all_children"
    /\ ret.state = "returned"
    /\ call.tag = List(<<Other, Item>>)
    /\ call.attrib = Some(Id1)
    /\ Len(root.kids) = 3
    /\ ret.val = <<(<<2>>), (<<1>>)>>

RECURSIVE Paths(_)
Paths(e) ==
    {<<>>} \cup UNION {{<<i>> \o p : p \in Paths(e.kids[i])} : i \in 1..Len(e.kids)}

\* absent, or nothing but whitespace
IsBlank(t) == t = None \/ \A i \in 1..Len(t[1]) : t[1][i] \in {Space, Newline}

Written == call.op = "write_xml"

\* tags, attributes and child structure are the same, and every text and tail
\* that is not blank is the same
SemanticsPreserved(a, b) ==
    /\ Paths(a) = Paths(b)
    /\ \A p \in Paths(a) :
           LET x == ElemAt(a, p)
               y == ElemAt(b, p)
           IN  /\ x.tag = y.tag
               /\ x.attrib = y.attrib
               /\ ~IsBlank(x.text) => y.text = x.text
               /\ ~IsBlank(x.tail) => y.tail = x.tail

\* no element with children has text that is not blank, and no element below
\* the root has a tail that is not blank
NoMixedContent(e) ==
    \A p \in Paths(e) :
        /\ Len(ElemAt(e, p).kids) > 0 => IsBlank(ElemAt(e, p).text)
        /\ p # <<>> => IsBlank(ElemAt(e, p).tail)

\* C9 as stated: the reindentation of write_xml preserves, on any parsed
\* tree, every tag, attribute, the child structure and every text and tail
\* that is not whitespace-only.
C9_ReindentPreservesAlways == Written => SemanticsPreserved(before, root)

\* C9 amended: it does on every parsed tree without mixed content.
C9_ReindentPreservesUnmixed ==
    (Written /\ NoMixedContent(before)) => SemanticsPreserved(before, root)

\* a tree without mixed content, two levels deep, with text in a leaf, written
C9_Witness ==
    /\ Written
    /\ NoMixedContent(before)
    /\ root # before
    /\ \E p \in Paths(before) : Len(p) = 2 /\ ElemAt(before, p).text = Some(Word)
    /\ \E p \in Paths(before) : ElemAt(before, p).text = Some(Blank)

Indentation(k) == <<Newline>> \o [i \in 1..k |-> Space]

Indented(e) ==
    \A p \in Paths(e) :
        LET x == ElemAt(e, p)
            d == Len(p)
            n == Len(x.kids)
        IN  n > 0 =>
                /\ x.text = Some(Indentation(2 * (d + 1)))
                /\ \A i \in 1..n :
                       x.kids[i].tail = Some(Indentation(IF i < n THEN 2 * (d + 1)
                                                         ELSE 2 * d))

\* C10: after xml_reindent(root, 0) on any tree, a root without children
\* included, the root's tail is one newline and every element with children
\* indents its children by its depth.
C10_RootTailNewlineAndIndented ==
    Written => (root.tail = Some(<<Newline>>) /\ Indented(root))

\* C10 for the roots that have children
C10_RootWithChildren ==
    (Written /\ Len(before.kids) > 0) => (root.tail = Some(<<Newline>>) /\ Indented(root))

\* C10 but for the root's tail
C10_IndentedOnly == Written => Indented(root)

====
